---------------------------- MODULE Spec2Model ----------------------------
(***************************************************************************)
(* Model of the hybrid product search repository:                          *)
(*   src/preprocessing_indexing/main.py  chunk generation at index time    *)
(*   src/product_search/main.py          reassembly, fuzzy scoring, fusion *)
(*                                       and ranking at query time         *)
(*                                                                         *)
(* Python strings that are only concatenated (tokens, chunks, titles) are  *)
(* TLA+ strings; strings that are parsed (document ids) are sequences of   *)
(* one-character strings.  Python floats that are quotients of small       *)
(* integers are exact rationals [num, den].  A Python list is a sequence,  *)
(* a dict with string keys is a record, the empty dict is the empty        *)
(* function, an insertion-ordered dict that is iterated is a sequence of   *)
(* (key, value) records.                                                   *)
(***************************************************************************)
EXTENDS Integers, Sequences, FiniteSets, TLC

VARIABLES
    call,   \* the pure function under call and its arguments
    ret,    \* its return value
    cpc     \* position of the caller: "call" before, "done" after

VARIABLES
    kendra_index_id,   \* the module global resolved at import
    kendra_queries,    \* number of kendra.query calls issued so far
    searches,          \* number of product_search calls made so far
    product_attr,      \* product_search: the type, color and occasion terms
    response,          \* retrieve_kendra: ResultItems of the query response
    grouped_titles,    \* the blob map returned by retrieve_kendra
    p_t_res,           \* product_search: the matches of the type term
    p_c_res,           \* the matches of the color term
    p_o_res,           \* the matches of the occasion term
    weighted_results,  \* the fused results, before they are sorted
    final_product_ids, \* the ids product_search returns
    final_results,     \* the fused results product_search returns
    pc                 \* position in retrieve_kendra / product_search

VARIABLES
    main_items,     \* main: items, the argument of the ingestion run
    main_documents, \* main: documents, the normalized documents
    main_i,         \* main: i, the loop variable of the submission loop
    put_calls,      \* the batch_put_document calls issued, with their response
    main_ret,       \* main: the list it returned
    ipc             \* position in main

pureVars == <<call, ret, cpc>>

ingestVars ==
    <<main_items, main_documents, main_i, put_calls, main_ret, ipc>>

rankVars == <<p_t_res, p_c_res, p_o_res, weighted_results,
              final_product_ids, final_results>>

searchVars == <<kendra_index_id, kendra_queries, searches, product_attr,
                response, grouped_titles, p_t_res, p_c_res, p_o_res,
                weighted_results, final_product_ids, final_results, pc>>

vars == <<call, ret, cpc, kendra_index_id, kendra_queries, searches,
          product_attr, response, grouped_titles, p_t_res, p_c_res, p_o_res,
          weighted_results, final_product_ids, final_results, pc,
          main_items, main_documents, main_i, put_calls, main_ret, ipc>>

---------------------------------------------------------------------------
(* Bounds                                                                  *)

\* longest attribute value list of a product
MaxLen == 3

---------------------------------------------------------------------------
(* Python builtins                                                         *)

Min(a, b) == IF a <= b THEN a ELSE b

Max(a, b) == IF a >= b THEN a ELSE b

\* list[lo:hi] for 0 <= lo, clipped to the list
PySlice(list, lo, hi) == SubSeq(list, lo + 1, Min(hi, Len(list)))

\* list[lo:]
PySliceFrom(list, lo) == SubSeq(list, lo + 1, Len(list))

\* sep.join(list)
RECURSIVE Join(_, _)
Join(sep, list) ==
    IF list = <<>> THEN ""
    ELSE IF Len(list) = 1 THEN list[1]
    ELSE list[1] \o sep \o Join(sep, Tail(list))

\* every list of at most n elements of S
SeqUpTo(S, n) == UNION {[1..k -> S] : k \in 0..n}

\* the orders in which a set can be iterated: every way to list its
\* elements once
Orderings(S) ==
    {f \in [1..Cardinality(S) -> S] :
        \A a, b \in 1..Cardinality(S) : a # b => f[a] # f[b]}

\* the empty dict
EmptyDict == [k \in {} |-> 0]

\* None, as the truth test "not kendra_index_id" sees it
None == ""

\* the locals of product_search behind retrieve_kendra, not yet assigned
RankUnset ==
    /\ p_t_res = <<>>
    /\ p_c_res = <<>>
    /\ p_o_res = <<>>
    /\ weighted_results = <<>>
    /\ final_product_ids = <<>>
    /\ final_results = <<>>

\* no search is running
SearchIdle ==
    /\ kendra_index_id = None
    /\ kendra_queries = 0
    /\ searches = 0
    /\ product_attr = EmptyDict
    /\ response = <<>>
    /\ grouped_titles = <<>>
    /\ RankUnset
    /\ pc = "idle"

\* no ingestion run is under way
IngestIdle ==
    /\ main_items = <<>>
    /\ main_documents = <<>>
    /\ main_i = 0
    /\ put_calls = <<>>
    /\ main_ret = <<>>
    /\ ipc = "idle"

\* no pure function is under call
PureIdle ==
    /\ call = EmptyDict
    /\ ret = <<>>
    /\ cpc = "idle"

---------------------------------------------------------------------------
(* Index time: chunk generation (preprocessing_indexing/main.py)           *)

\* the inner loop "for j in range(0, max(1, len(list2) - window_size + 1))"
RECURSIVE doc_chunks_j(_, _, _, _, _, _)
doc_chunks_j(list1, list2, window_size, i, j, cross_product_list) ==
    IF j >= Max(1, Len(list2) - window_size + 1) THEN cross_product_list
    ELSE LET l1 == IF i + window_size <= Len(list1)
                   THEN PySlice(list1, i, i + window_size)
                   ELSE PySliceFrom(list1, i)
             l2 == IF j + window_size <= Len(list2)
                   THEN PySlice(list2, j, j + window_size)
                   ELSE PySliceFrom(list2, j)
         IN doc_chunks_j(list1, list2, window_size, i, j + 1,
                Append(cross_product_list,
                       Join(" ", l1) \o " " \o Join(" ", l2)))

\* the outer loop "for i in range(0, max(1, len(list1) - window_size + 1))"
RECURSIVE doc_chunks_i(_, _, _, _, _)
doc_chunks_i(list1, list2, window_size, i, cross_product_list) ==
    IF i >= Max(1, Len(list1) - window_size + 1) THEN cross_product_list
    ELSE doc_chunks_i(list1, list2, window_size, i + 1,
            doc_chunks_j(list1, list2, window_size, i, 0, cross_product_list))

\* doc_chunks with the window the source keeps in a comment:
\* window_size = max(1, min(4, min_length // 2))
doc_chunks_half_window(list1, list2) ==
    LET min_length == Min(Len(list1), Len(list2))
    IN IF min_length = 0 THEN <<>>
       ELSE doc_chunks_i(list1, list2,
                Max(1, Min(4, min_length \div 2)), 0, <<>>)

\* doc_chunks with a window of one token on either side
doc_chunks_unit_window(list1, list2) ==
    LET min_length == Min(Len(list1), Len(list2))
    IN IF min_length = 0 THEN <<>>
       ELSE doc_chunks_i(list1, list2, 1, 0, <<>>)

doc_chunks(list1, list2) ==
    LET min_length == Min(Len(list1), Len(list2))
    IN IF min_length = 0 THEN <<>>
       ELSE doc_chunks_i(list1, list2, min_length, 0, <<>>)

\* get_chunks_for_product crossing colour with type first
get_chunks_color_first(color, product_type, occasion) ==
    doc_chunks(doc_chunks(color, product_type), occasion)

get_chunks_for_product(color, product_type, occasion) ==
    LET cross_prod_occasion == doc_chunks(product_type, occasion)
        cross_color == doc_chunks(color, cross_prod_occasion)
    IN cross_color

---------------------------------------------------------------------------
(* Calls of the chunk generator on bounded inputs                          *)

ColorTokens == {"red", "blue"}
TypeTokens == {"dress", "skirt", "top"}
OccasionTokens == {"party", "formal"}

DocChunksCalls ==
    {[fn |-> "doc_chunks", args |-> <<l1, l2>>] :
        l1 \in SeqUpTo(ColorTokens, MaxLen), l2 \in SeqUpTo(TypeTokens, MaxLen)}

GetChunksCalls ==
    {[fn |-> "get_chunks_for_product", args |-> <<c, t, o>>] :
        c \in SeqUpTo(ColorTokens, MaxLen),
        t \in SeqUpTo({"dress", "skirt"}, MaxLen),
        o \in SeqUpTo(OccasionTokens, MaxLen)}

InitChunks ==
    /\ call \in DocChunksCalls \cup GetChunksCalls
    /\ ret = <<>>
    /\ cpc = "call"
    /\ SearchIdle
    /\ IngestIdle

DocChunks ==
    /\ cpc = "call"
    /\ call.fn = "doc_chunks"
    /\ ret' = doc_chunks(call.args[1], call.args[2])
    /\ cpc' = "done"
    /\ UNCHANGED call
    /\ UNCHANGED searchVars
    /\ UNCHANGED ingestVars

GetChunksForProduct ==
    /\ cpc = "call"
    /\ call.fn = "get_chunks_for_product"
    /\ ret' = get_chunks_for_product(call.args[1], call.args[2], call.args[3])
    /\ cpc' = "done"
    /\ UNCHANGED call
    /\ UNCHANGED searchVars
    /\ UNCHANGED ingestVars

NextChunks == DocChunks \/ GetChunksForProduct

SpecChunks == InitChunks /\ [][NextChunks]_vars

---------------------------------------------------------------------------
(* Claims about chunk generation                                           *)

\* windowedCross as the specification states it: for i (outer) and j
\* (inner), the window of list1 at i joined to the window of list2 at j
WindowedCross(list1, list2) ==
    IF Len(list1) = 0 \/ Len(list2) = 0 THEN <<>>
    ELSE LET w == Min(Len(list1), Len(list2))
             n1 == Max(1, Len(list1) - w + 1)
             n2 == Max(1, Len(list2) - w + 1)
         IN [k \in 1..(n1 * n2) |->
                LET i == (k - 1) \div n2
                    j == (k - 1) % n2
                IN Join(" ", SubSeq(list1, i + 1, i + w)) \o " " \o
                   Join(" ", SubSeq(list2, j + 1, j + w))]

RedBlue == <<"red", "blue">>
DressSkirtTop == <<"dress", "skirt", "top">>

\* C1: doc_chunks(list1, list2) is exactly windowedCross(list1, list2) for
\* every pair of lists, empty ones included, and on (red blue), (dress
\* skirt top) it is ("red blue dress skirt", "red blue skirt top").
C1_DocChunksIsWindowedCross ==
    (cpc = "done" /\ call.fn = "doc_chunks") =>
        /\ ret = WindowedCross(call.args[1], call.args[2])
        /\ (call.args[1] = <<>> \/ call.args[2] = <<>>) => ret = <<>>
        /\ call.args = <<RedBlue, DressSkirtTop>> =>
              ret = <<"red blue dress skirt", "red blue skirt top">>

C1_Witness ==
    /\ cpc = "done"
    /\ call.fn = "doc_chunks"
    /\ call.args = <<RedBlue, DressSkirtTop>>
    /\ Len(ret) = 2

ExampleProduct == <<RedBlue, <<"dress">>, <<"party", "formal">>>>

\* C2 as stated: the product red blue / dress / party formal yields exactly
\* 2 chunks.
C2_TwoChunks ==
    (cpc = "done" /\ call.fn = "get_chunks_for_product"
        /\ call.args = ExampleProduct) => Len(ret) = 2

\* C2 amended: the product red blue / dress / party formal yields exactly
\* 1 chunk, "red blue dress party dress formal": the two type x occasion
\* chunks are the second list of the colour cross, whose window is 2.
C2_OneChunk ==
    (cpc = "done" /\ call.fn = "get_chunks_for_product"
        /\ call.args = ExampleProduct) =>
            ret = <<"red blue dress party dress formal">>

C2_Witness ==
    /\ cpc = "done"
    /\ call.fn = "get_chunks_for_product"
    /\ call.args = ExampleProduct
    /\ Len(ret) = 1

\* C11: for lists of length >= 1, doc_chunks(list1, list2) returns
\* (len1 - w + 1) * (len2 - w + 1) strings, where w = min(len1, len2).
C11_ChunkCount ==
    (cpc = "done" /\ call.fn = "doc_chunks"
        /\ Len(call.args[1]) >= 1 /\ Len(call.args[2]) >= 1) =>
        LET len1 == Len(call.args[1])
            len2 == Len(call.args[2])
            w == Min(len1, len2)
        IN Len(ret) = (len1 - w + 1) * (len2 - w + 1)

\* one colour against three types: window 1, three chunks
C11_Witness ==
    /\ cpc = "done"
    /\ call.fn = "doc_chunks"
    /\ Len(call.args[1]) = 1
    /\ Len(call.args[2]) = MaxLen
    /\ Len(ret) = MaxLen

---------------------------------------------------------------------------
(* Query time: reassembly of the hits (product_search/main.py)             *)

\* most hits in one query response
MaxHits == 3

Digits == {"0", "1", "2", "3", "4", "5", "6", "7", "8", "9"}

DigitVal(c) ==
    CASE c = "0" -> 0 [] c = "1" -> 1 [] c = "2" -> 2 [] c = "3" -> 3
      [] c = "4" -> 4 [] c = "5" -> 5 [] c = "6" -> 6 [] c = "7" -> 7
      [] c = "8" -> 8 [] c = "9" -> 9

\* s.split("__"): the separator is searched from the left, matches do not
\* overlap, and a string without it comes back as the one part
RECURSIVE split_scan(_, _, _)
split_scan(s, part, parts) ==
    IF s = <<>> THEN Append(parts, part)
    ELSE IF Len(s) >= 2 /\ s[1] = "_" /\ s[2] = "_"
         THEN split_scan(SubSeq(s, 3, Len(s)), <<>>, Append(parts, part))
         ELSE split_scan(Tail(s), Append(part, s[1]), parts)

PySplit(s) == split_scan(s, <<>>, <<>>)

\* s.strip() for blanks
RECURSIVE PyStrip(_)
PyStrip(s) ==
    IF s # <<>> /\ s[1] = " " THEN PyStrip(Tail(s))
    ELSE IF s # <<>> /\ s[Len(s)] = " " THEN PyStrip(SubSeq(s, 1, Len(s) - 1))
    ELSE s

\* the digits of an int() literal: after blanks and an optional sign
IntBody(s) ==
    LET t == PyStrip(s)
    IN IF t # <<>> /\ t[1] \in {"+", "-"} THEN Tail(t) ELSE t

\* int(s) does not raise ValueError: digits, single underscores only between
\* two digits
PyIntOk(s) ==
    LET u == IntBody(s)
    IN /\ u # <<>>
       /\ \A k \in 1..Len(u) :
            \/ u[k] \in Digits
            \/ /\ u[k] = "_"
               /\ 1 < k /\ k < Len(u)
               /\ u[k - 1] \in Digits /\ u[k + 1] \in Digits

RECURSIVE digits_value(_, _)
digits_value(u, acc) ==
    IF u = <<>> THEN acc
    ELSE IF u[1] = "_" THEN digits_value(Tail(u), acc)
    ELSE digits_value(Tail(u), 10 * acc + DigitVal(u[1]))

\* int(s), where it does not raise
PyIntVal(s) ==
    LET t == PyStrip(s)
        v == digits_value(IntBody(s), 0)
    IN IF t[1] = "-" THEN 0 - v ELSE v

\* the position of key in an insertion-ordered dict, 0 when absent
DictIndex(dict, key) ==
    IF \E k \in 1..Len(dict) : dict[k].key = key
    THEN CHOOSE k \in 1..Len(dict) : dict[k].key = key
    ELSE 0

DictKeys(dict) == {dict[k].key : k \in 1..Len(dict)}

\* grouped_products[actual_id].append(item) on a defaultdict(list)
DefaultDictAppend(dict, key, item) ==
    LET k == DictIndex(dict, key)
    IN IF k = 0 THEN Append(dict, [key |-> key, value |-> <<item>>])
       ELSE [dict EXCEPT ![k].value = Append(@, item)]

\* the first loop of group_and_combine: grouped_products, or the ValueError
\* of the unpacking (more than two parts) or of int(sequence)
RECURSIVE group_loop(_, _)
group_loop(products, grouped_products) ==
    IF products = <<>>
    THEN [raised |-> FALSE, value |-> grouped_products]
    ELSE LET product == Head(products)
             parts == PySplit(product.product_id)
         IN IF Len(parts) = 1
            THEN group_loop(Tail(products),
                    DefaultDictAppend(grouped_products, parts[1],
                        <<PyIntVal(<<"0">>), product.doc_title>>))
            ELSE IF Len(parts) # 2 \/ ~PyIntOk(parts[2])
            THEN [raised |-> TRUE, value |-> <<>>]
            ELSE group_loop(Tail(products),
                    DefaultDictAppend(grouped_products, parts[1],
                        <<PyIntVal(parts[2]), product.doc_title>>))

\* insert item behind every element whose sequence number is not greater
RECURSIVE insert_ascending(_, _)
insert_ascending(sorted_items, item) ==
    IF sorted_items = <<>> THEN <<item>>
    ELSE IF Head(sorted_items)[1] <= item[1]
         THEN <<Head(sorted_items)>> \o insert_ascending(Tail(sorted_items), item)
         ELSE <<item>> \o sorted_items

\* sorted(items, key=lambda x: x[0]): stable, ascending
RECURSIVE sorted_by_sequence(_)
sorted_by_sequence(items) ==
    IF items = <<>> THEN <<>>
    ELSE insert_ascending(
            sorted_by_sequence(SubSeq(items, 1, Len(items) - 1)),
            items[Len(items)])

\* the second loop of group_and_combine
combine_titles(grouped_products) ==
    [k \in 1..Len(grouped_products) |->
        LET sorted_items == sorted_by_sequence(grouped_products[k].value)
        IN [key |-> grouped_products[k].key,
            value |-> Join(" ", [n \in 1..Len(sorted_items) |->
                                    sorted_items[n][2]])]]

\* group_and_combine: [raised, value], value the combined_results dict
group_and_combine(products) ==
    LET grouped == group_loop(products, <<>>)
    IN IF grouped.raised THEN grouped
       ELSE [raised |-> FALSE, value |-> combine_titles(grouped.value)]

KeptConfidence == {"VERY_HIGH", "HIGH", "MEDIUM"}

\* process_single_result: the DocumentId of a confident hit, else None
process_single_result(item) ==
    IF item.DocumentId # <<>> /\ item.ScoreConfidence \in KeptConfidence
    THEN item.DocumentId
    ELSE <<>>

\* get_doc_with_title: every hit with a DocumentId, with its title
RECURSIVE get_doc_with_title(_)
get_doc_with_title(documents) ==
    IF documents = <<>> THEN <<>>
    ELSE LET doc == Head(documents)
         IN (IF doc.DocumentId # <<>>
             THEN <<[product_id |-> doc.DocumentId,
                     doc_title |-> doc.DocumentTitle]>>
             ELSE <<>>) \o get_doc_with_title(Tail(documents))

\* the body of retrieve_kendra behind the query: [raised, value]
retrieve_kendra_result(results) ==
    LET doc_with_titles == get_doc_with_title(results)
    IN group_and_combine(doc_with_titles)

\* a validate_index that never raises
validate_index_passes == FALSE

\* validate_index
validate_index_raises == kendra_index_id = None

\* retrieve_kendra, with the response of kendra.query drawn from Responses;
\* the query itself may raise.  pc records the exception that propagates:
\* the Exception of validate_index, the error of kendra.query, or the
\* ValueError of group_and_combine
retrieve_kendra(Responses) ==
    /\ pc = "start"
    /\ IF validate_index_raises
       THEN /\ pc' = "raised:index"
            /\ UNCHANGED <<kendra_queries, response, grouped_titles>>
       ELSE /\ kendra_queries' = kendra_queries + 1
            /\ \/ /\ pc' = "raised:query"
                  /\ UNCHANGED <<response, grouped_titles>>
               \/ \E r \in Responses :
                    LET res == retrieve_kendra_result(r)
                    IN /\ response' = r
                       /\ grouped_titles' = res.value
                       /\ pc' = IF res.raised THEN "raised:ValueError"
                                ELSE "returned"
    /\ UNCHANGED <<kendra_index_id, searches, product_attr>>
    /\ UNCHANGED rankVars
    /\ UNCHANGED pureVars
    /\ UNCHANGED ingestVars

---------------------------------------------------------------------------
(* Calls of retrieve_kendra on bounded responses                           *)

P1 == <<"P", "1">>
P2 == <<"P", "2">>
Sep == <<"_", "_">>

\* document ids: with and without suffix, two chunks of a product, a product
\* id that holds the separator, a hit without id
RetrieveIds ==
    {P1, P1 \o Sep \o <<"0">>, P1 \o Sep \o <<"1">>, P2 \o Sep \o <<"0">>,
     P1 \o Sep \o P2 \o Sep \o <<"0">>, <<>>}

Titles == {"red dress", "casual wear"}

Confidences == {"HIGH", "LOW"}

RetrieveHits ==
    [DocumentId : RetrieveIds, DocumentTitle : Titles,
     ScoreConfidence : Confidences]

InitRetrieve ==
    /\ kendra_index_id \in {None, "index-1"}
    /\ kendra_queries = 0
    /\ searches = 1
    /\ product_attr = EmptyDict
    /\ response = <<>>
    /\ grouped_titles = <<>>
    /\ RankUnset
    /\ pc = "start"
    /\ PureIdle
    /\ IngestIdle

RetrieveKendra == retrieve_kendra(SeqUpTo(RetrieveHits, MaxHits))

NextRetrieve == RetrieveKendra

SpecRetrieve == InitRetrieve /\ [][NextRetrieve]_vars

---------------------------------------------------------------------------
(* Claims about reassembly                                                 *)

\* the hits group_and_combine is called on
HitDocs == get_doc_with_title(response)

\* the part of an id before its first "__", the whole id when it has none
BaseIdOf(id) == PySplit(id)[1]

\* the text of an id behind its first "__"
SuffixOf(id) == SubSeq(id, Len(BaseIdOf(id)) + 3, Len(id))

\* the sequence number an id carries: 0 without "__"
SeqNoOf(id) ==
    IF Len(PySplit(id)) = 1 THEN 0
    ELSE IF PyIntOk(SuffixOf(id)) THEN PyIntVal(SuffixOf(id))
    ELSE 0

\* the positions of the hits of one base product id
HitsOf(docs, base) ==
    {k \in 1..Len(docs) : BaseIdOf(docs[k].product_id) = base}

\* text is the titles of exactly the hits of base, by ascending sequence
\* number, joined by single spaces
IsBlobOf(text, docs, base) ==
    \E ord \in Orderings(HitsOf(docs, base)) :
        /\ \A a, b \in 1..Len(ord) :
              a < b => SeqNoOf(docs[ord[a]].product_id)
                          <= SeqNoOf(docs[ord[b]].product_id)
        /\ text = Join(" ", [n \in 1..Len(ord) |-> docs[ord[n]].doc_title])

DictItems(dict) == {dict[k] : k \in 1..Len(dict)}

\* C3: for every list of hits group_and_combine returns a map whose keys
\* are exactly the base product ids of the hits and whose values are the
\* titles of the hits of that id by ascending sequence number, joined by
\* single spaces.
C3_GroupsEveryHitList ==
    pc \in {"returned", "raised:ValueError"} =>
        /\ pc = "returned"
        /\ DictKeys(grouped_titles) =
              {BaseIdOf(HitDocs[k].product_id) : k \in 1..Len(HitDocs)}
        /\ \A k \in 1..Len(grouped_titles) :
              IsBlobOf(grouped_titles[k].value, HitDocs,
                       grouped_titles[k].key)

\* every permutation of a list
PermutationsOf(list) ==
    {[n \in 1..Len(list) |-> list[ord[n]]] : ord \in Orderings(1..Len(list))}

\* C4: group_and_combine returns the same map for every permutation of the
\* hits, also when two hits of a base product id carry the same sequence
\* number.
C4_OrderIndependent ==
    pc = "returned" =>
        \A p \in PermutationsOf(HitDocs) :
            /\ ~group_and_combine(p).raised
            /\ DictItems(group_and_combine(p).value) = DictItems(grouped_titles)

\* the hits of a response that process_single_result keeps
RECURSIVE ConfidentHits(_)
ConfidentHits(results) ==
    IF results = <<>> THEN <<>>
    ELSE (IF process_single_result(Head(results)) # <<>>
          THEN <<Head(results)>> ELSE <<>>) \o ConfidentHits(Tail(results))

\* C9: only hits of confidence VERY_HIGH, HIGH or MEDIUM are retained on
\* the search path: the blob map is the one the confident hits alone give.
C9_OnlyConfidentHitsRetained ==
    pc = "returned" =>
        DictItems(grouped_titles) =
            DictItems(retrieve_kendra_result(ConfidentHits(response)).value)

---------------------------------------------------------------------------
(* Query time: fusion of the attribute scores (product_search/main.py)     *)

\* the largest score partial_ratio returns
MaxScore == 100

prod_type_weight == 3
prod_color_weight == 2
prod_occasion_weight == 1

\* the float n / d, kept exact
Rat(n, d) == [num |-> n, den |-> d]

\* the int 0 that weight_results returns without dividing
RatZero == Rat(0, 1)

RatTimes(r, k) == Rat(r.num * k, r.den)

RatLeq(a, b) == a.num * b.den <= b.num * a.den

RatEq(a, b) == a.num * b.den = b.num * a.den

\* weight_results dividing by the sum of all three weights
weight_results_all_weights(prod_type, prod_color, prod_occasion) ==
    LET prod == (prod_type_weight * prod_type)
                + (prod_color_weight * prod_color)
                + (prod_occasion_weight * prod_occasion)
        total_weight == prod_type_weight + prod_color_weight
                        + prod_occasion_weight
    IN Rat(prod, total_weight * 100)

\* weight_results without the division by 100
weight_results_unscaled(prod_type, prod_color, prod_occasion) ==
    LET prod == (prod_type_weight * prod_type)
                + (prod_color_weight * prod_color)
                + (prod_occasion_weight * prod_occasion)
        total_weight == (IF prod_type # 0 THEN prod_type_weight ELSE 0)
                        + (IF prod_color # 0 THEN prod_color_weight ELSE 0)
                        + (IF prod_occasion # 0 THEN prod_occasion_weight ELSE 0)
    IN IF total_weight # 0 THEN Rat(prod, total_weight) ELSE RatZero

weight_results(prod_type, prod_color, prod_occasion) ==
    LET prod == (prod_type_weight * prod_type)
                + (prod_color_weight * prod_color)
                + (prod_occasion_weight * prod_occasion)
        total_weight == (IF prod_type # 0 THEN prod_type_weight ELSE 0)
                        + (IF prod_color # 0 THEN prod_color_weight ELSE 0)
                        + (IF prod_occasion # 0 THEN prod_occasion_weight ELSE 0)
    IN IF total_weight # 0 THEN Rat(prod, total_weight * 100) ELSE RatZero

\* {item["product_id"]: item for item in list}: the last item of an id wins
DictOfList(list) ==
    [id \in {list[k].product_id : k \in 1..Len(list)} |->
        list[CHOOSE k \in 1..Len(list) :
                /\ list[k].product_id = id
                /\ \A n \in (k + 1)..Len(list) : list[n].product_id # id]]

\* dict.get(key, {})
DictGet(dict, key) == IF key \in DOMAIN dict THEN dict[key] ELSE EmptyDict

\* set(dict1.keys()) | set(dict2.keys()) | set(dict3.keys())
all_product_ids(list1, list2, list3) ==
    DOMAIN DictOfList(list1) \cup DOMAIN DictOfList(list2)
        \cup DOMAIN DictOfList(list3)

\* match_products_partial keeping the ids common to the three lists
match_products_common(list1, list2, list3, order) ==
    LET dict1 == DictOfList(list1)
        dict2 == DictOfList(list2)
        dict3 == DictOfList(list3)
        common == SelectSeq(order, LAMBDA id :
                     id \in DOMAIN dict1 \cap DOMAIN dict2 \cap DOMAIN dict3)
    IN [k \in 1..Len(common) |->
          [prod_type |-> DictGet(dict1, common[k]),
           prod_color |-> DictGet(dict2, common[k]),
           product_occasion |-> DictGet(dict3, common[k]),
           product_id |-> common[k]]]

\* match_products_partial; order is the order in which the set
\* all_product_ids is iterated, which the language leaves open
match_products_partial(list1, list2, list3, order) ==
    LET dict1 == DictOfList(list1)
        dict2 == DictOfList(list2)
        dict3 == DictOfList(list3)
    IN [k \in 1..Len(order) |->
          [prod_type |-> DictGet(dict1, order[k]),
           prod_color |-> DictGet(dict2, order[k]),
           product_occasion |-> DictGet(dict3, order[k]),
           product_id |-> order[k]]]

\* dict.get("score", 0)
GetScore(dict) == IF "score" \in DOMAIN dict THEN dict.score ELSE 0

\* "d if d else False": False and {} are both falsy and the result is only
\* ever truth-tested, so False is kept as the empty dict
OrFalse(dict) == IF DOMAIN dict # {} THEN dict ELSE EmptyDict

Truthy(dict) == DOMAIN dict # {}

weight_list_of_product_results(product_results) ==
    [k \in 1..Len(product_results) |->
        LET pro_res == product_results[k]
            res == weight_results(GetScore(pro_res.prod_type),
                                  GetScore(pro_res.prod_color),
                                  GetScore(pro_res.product_occasion))
        IN [product_id |-> pro_res.product_id,
            total_weight |-> res,
            overall_score |-> RatTimes(res, 100),
            prod_type |-> OrFalse(pro_res.prod_type),
            prod_color |-> OrFalse(pro_res.prod_color),
            product_occasion |-> OrFalse(pro_res.product_occasion)]]

---------------------------------------------------------------------------
(* Calls of weight_list_of_product_results on one joined product           *)

\* number of steps of the score grid
ScoreLevels == 10

GridScores == {(MaxScore * k) \div ScoreLevels : k \in 0..ScoreLevels}

\* one side of a joined product: no match, or a match with a score
GridSides ==
    {EmptyDict} \cup
    {[product_title |-> "red dress", score |-> sc, product_id |-> P1] :
        sc \in GridScores}

WeightCalls ==
    {[fn |-> "weight_list_of_product_results",
      args |-> <<<<[prod_type |-> t, prod_color |-> c,
                    product_occasion |-> o, product_id |-> P1]>>>>] :
        t \in GridSides, c \in GridSides, o \in GridSides}

InitWeights ==
    /\ call \in WeightCalls
    /\ ret = <<>>
    /\ cpc = "call"
    /\ SearchIdle
    /\ IngestIdle

WeightListOfProductResults ==
    /\ cpc = "call"
    /\ call.fn = "weight_list_of_product_results"
    /\ ret' = weight_list_of_product_results(call.args[1])
    /\ cpc' = "done"
    /\ UNCHANGED call
    /\ UNCHANGED searchVars
    /\ UNCHANGED ingestVars

NextWeights == WeightListOfProductResults

SpecWeights == InitWeights /\ [][NextWeights]_vars

---------------------------------------------------------------------------
(* Claims about the weighted score                                         *)

\* the score of a side, 0 for an absent side
SideScore(side) == IF side = EmptyDict THEN 0 ELSE side.score

\* the sum of the weights of the attributes whose score is not 0
Divisor(sT, sC, sO) ==
    LET weight == [type |-> 3, color |-> 2, occasion |-> 1]
        score == [type |-> sT, color |-> sC, occasion |-> sO]
        nonzero == {a \in {"type", "color", "occasion"} : score[a] # 0}
    IN IF nonzero = {} THEN 0
       ELSE IF nonzero = {"type"} THEN weight.type
       ELSE IF nonzero = {"color"} THEN weight.color
       ELSE IF nonzero = {"occasion"} THEN weight.occasion
       ELSE IF nonzero = {"type", "color"} THEN weight.type + weight.color
       ELSE IF nonzero = {"type", "occasion"} THEN weight.type + weight.occasion
       ELSE IF nonzero = {"color", "occasion"}
            THEN weight.color + weight.occasion
       ELSE weight.type + weight.color + weight.occasion

\* r is (3*sT + 2*sC + sO) / (100 * D), and 0 when D = 0
IsWeightedScore(r, sT, sC, sO) ==
    LET D == Divisor(sT, sC, sO)
    IN /\ r.den > 0
       /\ IF D = 0 THEN r.num = 0
          ELSE r.num * (100 * D) = (3 * sT + 2 * sC + sO) * r.den

\* C5: for scores in 0..100 the total_weight of a fused record is
\* (3*sT + 2*sC + sO) / (100 * D), D the weights of the nonzero scores, 0
\* when D = 0, and overall_score is 100 times it; (80, 60, 0) gives 0.72
\* and 72, (0, 0, 0) gives 0 and 0.
C5_WeightedScore ==
    (cpc = "done" /\ call.fn = "weight_list_of_product_results") =>
        LET pro_res == call.args[1][1]
            sT == SideScore(pro_res.prod_type)
            sC == SideScore(pro_res.prod_color)
            sO == SideScore(pro_res.product_occasion)
            fused == ret[1]
        IN /\ Len(ret) = 1
           /\ IsWeightedScore(fused.total_weight, sT, sC, sO)
           /\ fused.overall_score.den > 0
           /\ fused.overall_score.num * fused.total_weight.den =
                 100 * fused.total_weight.num * fused.overall_score.den
           /\ (sT = 80 /\ sC = 60 /\ sO = 0) =>
                 /\ RatEq(fused.total_weight, Rat(72, 100))
                 /\ RatEq(fused.overall_score, Rat(72, 1))
           /\ (sT = 0 /\ sC = 0 /\ sO = 0) =>
                 /\ fused.total_weight.num = 0
                 /\ fused.overall_score.num = 0

C5_Witness ==
    /\ cpc = "done"
    /\ call.fn = "weight_list_of_product_results"
    /\ Truthy(call.args[1][1].prod_type)
    /\ Truthy(call.args[1][1].prod_color)
    /\ SideScore(call.args[1][1].prod_type) = 80
    /\ SideScore(call.args[1][1].prod_color) = 60
    /\ SideScore(call.args[1][1].product_occasion) = 0
    /\ RatEq(ret[1].overall_score, Rat(72, 1))

\* C10: every fused result built from scores in 0..100, absent sides
\* counting 0, has total_weight in [0, 1] and overall_score in [0, 100].
C10_WeightInRange ==
    (cpc = "done" /\ call.fn = "weight_list_of_product_results") =>
        \A k \in 1..Len(ret) :
            /\ ret[k].total_weight.den > 0
            /\ RatLeq(RatZero, ret[k].total_weight)
            /\ RatLeq(ret[k].total_weight, Rat(1, 1))
            /\ ret[k].overall_score.den > 0
            /\ RatLeq(RatZero, ret[k].overall_score)
            /\ RatLeq(ret[k].overall_score, Rat(100, 1))

\* a product matched on type alone with the top score: weight 1, score 100
C10_Witness ==
    /\ cpc = "done"
    /\ call.fn = "weight_list_of_product_results"
    /\ SideScore(call.args[1][1].prod_type) = MaxScore
    /\ call.args[1][1].prod_color = EmptyDict
    /\ call.args[1][1].product_occasion = EmptyDict
    /\ RatEq(ret[1].total_weight, Rat(1, 1))
    /\ RatEq(ret[1].overall_score, Rat(100, 1))

---------------------------------------------------------------------------
(* Calls of match_products_partial and weight_list_of_product_results on   *)
(* any three lists of attribute matches, as product_search chains them     *)

\* most attribute matches in the three lists together
MaxMatches == 3

P3 == <<"P", "3">>

FusionScores == {0, 80}

Matches ==
    [product_title : {"red dress"}, score : FusionScores,
     product_id : {P1, P2, P3}]

\* three lists: every list of matches cut at two places
Cuts(l) ==
    {<<SubSeq(l, 1, c[1]), SubSeq(l, c[1] + 1, c[2]),
       SubSeq(l, c[2] + 1, Len(l))>> :
        c \in {d \in (0..Len(l)) \X (0..Len(l)) : d[1] <= d[2]}}

FusionCalls ==
    {[fn |-> "match_products_partial", args |-> lists] :
        lists \in UNION {Cuts(l) : l \in SeqUpTo(Matches, MaxMatches)}}

InitFusion ==
    /\ call \in FusionCalls
    /\ ret = <<>>
    /\ cpc = "call"
    /\ SearchIdle
    /\ IngestIdle

MatchAndWeight ==
    /\ cpc = "call"
    /\ call.fn = "match_products_partial"
    /\ \E order \in Orderings(all_product_ids(call.args[1], call.args[2],
                                               call.args[3])) :
          LET matched_prod_list ==
                  match_products_partial(call.args[1], call.args[2],
                                         call.args[3], order)
          IN ret' = [matched_prod_list |-> matched_prod_list,
                     weighted_results |->
                        weight_list_of_product_results(matched_prod_list)]
    /\ cpc' = "done"
    /\ UNCHANGED call
    /\ UNCHANGED searchVars
    /\ UNCHANGED ingestVars

NextFusion == MatchAndWeight

SpecFusion == InitFusion /\ [][NextFusion]_vars

---------------------------------------------------------------------------
(* Claims about the outer join                                             *)

IdsOf(list) == {list[k].product_id : k \in 1..Len(list)}

RecordsOf(list, id) ==
    {list[k] : k \in {n \in 1..Len(list) : list[n].product_id = id}}

\* side is what the join must hold for id on the side of list: a record of
\* list for id, or the empty record when list has none
IsSideOf(side, list, id) ==
    IF id \in IdsOf(list) THEN side \in RecordsOf(list, id)
    ELSE side = EmptyDict

\* C8: match_products_partial returns exactly one entry per product id of
\* the union of the three lists; a side the product is absent from is an
\* empty record, scored as 0 by weight_list_of_product_results, a side it
\* is present in carries that list's record.
C8_OuterJoin ==
    (cpc = "done" /\ call.fn = "match_products_partial") =>
        LET list1 == call.args[1]
            list2 == call.args[2]
            list3 == call.args[3]
            joined == ret.matched_prod_list
            weighted == ret.weighted_results
            union == IdsOf(list1) \cup IdsOf(list2) \cup IdsOf(list3)
        IN /\ Len(joined) = Cardinality(union)
           /\ {joined[k].product_id : k \in 1..Len(joined)} = union
           /\ Len(weighted) = Len(joined)
           /\ \A k \in 1..Len(joined) :
                /\ IsSideOf(joined[k].prod_type, list1, joined[k].product_id)
                /\ IsSideOf(joined[k].prod_color, list2, joined[k].product_id)
                /\ IsSideOf(joined[k].product_occasion, list3,
                            joined[k].product_id)
                /\ weighted[k].product_id = joined[k].product_id
                /\ IsWeightedScore(weighted[k].total_weight,
                                   SideScore(joined[k].prod_type),
                                   SideScore(joined[k].prod_color),
                                   SideScore(joined[k].product_occasion))

\* three products, each in one list only, each joined with two empty sides
C8_Witness ==
    /\ cpc = "done"
    /\ call.fn = "match_products_partial"
    /\ IdsOf(call.args[1]) = {P1}
    /\ IdsOf(call.args[2]) = {P2}
    /\ IdsOf(call.args[3]) = {P3}
    /\ Len(ret.matched_prod_list) = 3
    /\ \E k \in 1..3 :
          /\ ret.matched_prod_list[k].product_id = P2
          /\ ret.matched_prod_list[k].prod_type = EmptyDict
          /\ ret.matched_prod_list[k].prod_color.score = 80
          /\ RatEq(ret.weighted_results[k].total_weight, Rat(80, 100))

---------------------------------------------------------------------------
(* Query time: product_search (product_search/main.py)                     *)

\* insert item behind every element whose score is not smaller
RECURSIVE insert_by_score(_, _)
insert_by_score(sorted_results, item) ==
    IF sorted_results = <<>> THEN <<item>>
    ELSE IF Head(sorted_results).score >= item.score
         THEN <<Head(sorted_results)>>
                  \o insert_by_score(Tail(sorted_results), item)
         ELSE <<item>> \o sorted_results

\* results.sort(key=lambda x: x["score"], reverse=True): stable, descending
RECURSIVE sort_by_score(_)
sort_by_score(results) ==
    IF results = <<>> THEN <<>>
    ELSE insert_by_score(sort_by_score(SubSeq(results, 1, Len(results) - 1)),
                         results[Len(results)])

\* the loop of fuzzy_search over products.items(); ratio[text] is
\* partial_ratio(query.lower(), text.lower()), a function of the text for
\* the one query of the call
RECURSIVE fuzzy_loop(_, _, _, _)
fuzzy_loop(products, threshold, ratio, results) ==
    IF products = <<>> THEN results
    ELSE LET product_id == Head(products).key
             combined_title == Head(products).value
             similarity_score == ratio[combined_title]
         IN fuzzy_loop(Tail(products), threshold, ratio,
                IF similarity_score >= threshold
                THEN Append(results,
                        [product_title |-> combined_title,
                         score |-> similarity_score,
                         product_id |-> product_id])
                ELSE results)

\* fuzzy_search with its default threshold of 20, whatever is passed
fuzzy_search_default_threshold(query, products, threshold, ratio) ==
    sort_by_score(fuzzy_loop(products, 20, ratio, <<>>))

\* fuzzy_search without its final sort
fuzzy_search_unsorted(query, products, threshold, ratio) ==
    fuzzy_loop(products, threshold, ratio, <<>>)

fuzzy_search(query, products, threshold, ratio) ==
    sort_by_score(fuzzy_loop(products, threshold, ratio, <<>>))

\* insert item behind every element whose total_weight is not smaller
RECURSIVE insert_by_total_weight(_, _)
insert_by_total_weight(results, item) ==
    IF results = <<>> THEN <<item>>
    ELSE IF RatLeq(item.total_weight, Head(results).total_weight)
         THEN <<Head(results)>> \o insert_by_total_weight(Tail(results), item)
         ELSE <<item>> \o results

\* insert item before every element whose total_weight is not greater
RECURSIVE insert_before_equal(_, _)
insert_before_equal(results, item) ==
    IF results = <<>> THEN <<item>>
    ELSE IF RatLeq(item.total_weight, Head(results).total_weight)
            /\ ~RatEq(item.total_weight, Head(results).total_weight)
         THEN <<Head(results)>> \o insert_before_equal(Tail(results), item)
         ELSE <<item>> \o results

\* an ascending sort read backwards: descending, equal weights reversed
RECURSIVE sorted_then_reversed(_)
sorted_then_reversed(weighted) ==
    IF weighted = <<>> THEN <<>>
    ELSE insert_before_equal(
            sorted_then_reversed(SubSeq(weighted, 1, Len(weighted) - 1)),
            weighted[Len(weighted)])

\* sorted(weighted_results, key=lambda x: x["total_weight"], reverse=True):
\* stable, descending
RECURSIVE sorted_by_total_weight(_)
sorted_by_total_weight(weighted) ==
    IF weighted = <<>> THEN <<>>
    ELSE insert_by_total_weight(
            sorted_by_total_weight(SubSeq(weighted, 1, Len(weighted) - 1)),
            weighted[Len(weighted)])

\* the filter loop with its test negated: "if not res.get("prod_type")"
type_filter_negated(results, product_type) ==
    IF product_type # ""
    THEN SelectSeq(results, LAMBDA res : ~Truthy(res.prod_type))
    ELSE results

\* the last loop of product_search: with a type term, the results that
\* have a type record; without, all of them
type_filter(results, product_type) ==
    IF product_type # ""
    THEN SelectSeq(results, LAMBDA res : Truthy(res.prod_type))
    ELSE results

\* product documents of the index: two chunks of P1, one of P2, one of P3
SearchHits ==
    {[DocumentId |-> P1 \o Sep \o <<"0">>, DocumentTitle |-> "red dress",
      ScoreConfidence |-> "HIGH"],
     [DocumentId |-> P1 \o Sep \o <<"1">>, DocumentTitle |-> "casual wear",
      ScoreConfidence |-> "HIGH"],
     [DocumentId |-> P2 \o Sep \o <<"0">>, DocumentTitle |-> "blue skirt",
      ScoreConfidence |-> "MEDIUM"],
     [DocumentId |-> P3 \o Sep \o <<"0">>, DocumentTitle |-> "red dress",
      ScoreConfidence |-> "HIGH"]}

\* scores partial_ratio may give the type term, and the other two terms
TypeScores == {0, 80}
OtherScores == {0, 60}

\* the blobs of the candidates
Blobs == {grouped_titles[k].value : k \in 1..Len(grouped_titles)}

\* the outcomes of partial_ratio for a term: none when the term is empty
\* and fuzzy_search is not called
Ratios(term, scores) ==
    IF term # "" THEN [Blobs -> scores] ELSE {EmptyDict}

InitSearch ==
    /\ kendra_index_id \in {None, "index-1"}
    /\ kendra_queries = 0
    /\ searches = 1
    /\ product_attr \in [product_type : {"", "dress"},
                         product_color : {"", "red"},
                         product_occasion : {"", "party"}]
    /\ response = <<>>
    /\ grouped_titles = <<>>
    /\ RankUnset
    /\ pc = "start"
    /\ PureIdle
    /\ IngestIdle

\* the responses of the index: up to MaxHits documents, each at most once
SearchResponses ==
    {r \in SeqUpTo(SearchHits, MaxHits) :
        \A a, b \in 1..Len(r) : a # b => r[a] # r[b]}

\* product_search, the call of retrieve_kendra
SearchRetrieve == retrieve_kendra(SearchResponses)

\* product_search, the three fuzzy searches with threshold 0
FuzzySearches ==
    /\ pc = "returned"
    /\ \E rt \in Ratios(product_attr.product_type, TypeScores) :
          p_t_res' = IF product_attr.product_type # ""
                     THEN fuzzy_search(product_attr.product_type,
                                       grouped_titles, 0, rt)
                     ELSE <<>>
    /\ \E rc \in Ratios(product_attr.product_color, OtherScores) :
          p_c_res' = IF product_attr.product_color # ""
                     THEN fuzzy_search(product_attr.product_color,
                                       grouped_titles, 0, rc)
                     ELSE <<>>
    /\ \E ro \in Ratios(product_attr.product_occasion, OtherScores) :
          p_o_res' = IF product_attr.product_occasion # ""
                     THEN fuzzy_search(product_attr.product_occasion,
                                       grouped_titles, 0, ro)
                     ELSE <<>>
    /\ response' = <<>>
    /\ pc' = "scored"
    /\ UNCHANGED <<kendra_index_id, kendra_queries, searches, product_attr,
                   grouped_titles, weighted_results, final_product_ids,
                   final_results>>
    /\ UNCHANGED pureVars
    /\ UNCHANGED ingestVars

\* product_search, from match_products_partial to the return
FuseAndRank ==
    /\ pc = "scored"
    /\ \E order \in Orderings(all_product_ids(p_t_res, p_c_res, p_o_res)) :
          LET matched_prod_list ==
                  match_products_partial(p_t_res, p_c_res, p_o_res, order)
              weighted == weight_list_of_product_results(matched_prod_list)
              results == sorted_by_total_weight(weighted)
              final == type_filter(results, product_attr.product_type)
          IN /\ weighted_results' = weighted
             /\ final_results' = final
             /\ final_product_ids' =
                   [k \in 1..Len(final) |-> final[k].product_id]
    /\ pc' = "done"
    /\ UNCHANGED <<kendra_index_id, kendra_queries, searches, product_attr,
                   response, grouped_titles, p_t_res, p_c_res, p_o_res>>
    /\ UNCHANGED pureVars
    /\ UNCHANGED ingestVars

NextSearch == SearchRetrieve \/ FuzzySearches \/ FuseAndRank

SpecSearch == InitSearch /\ [][NextSearch]_vars

---------------------------------------------------------------------------
(* Claims about the ranking step                                           *)

\* the fused results that have a type-match record
WithTypeRecord ==
    {k \in 1..Len(weighted_results) :
        weighted_results[k].prod_type # EmptyDict}

\* C6: with a type term, product_search returns exactly the fused results
\* that have a type-match record; without one, every fused result; the id
\* list names the returned results.
C6_TypeFilter ==
    pc = "done" =>
        LET kept == IF product_attr.product_type # "" THEN WithTypeRecord
                    ELSE 1..Len(weighted_results)
        IN /\ Len(final_results) = Cardinality(kept)
           /\ {final_results[k] : k \in 1..Len(final_results)} =
                 {weighted_results[k] : k \in kept}
           /\ Len(final_product_ids) = Len(final_results)
           /\ \A k \in 1..Len(final_results) :
                 final_product_ids[k] = final_results[k].product_id

\* a type term alone, three candidates, all returned with their type record
C6_Witness ==
    /\ pc = "done"
    /\ product_attr.product_type # ""
    /\ product_attr.product_color = ""
    /\ Len(weighted_results) = 3
    /\ Len(final_product_ids) = 3
    /\ \A k \in 1..3 : final_results[k].prod_type # EmptyDict

\* the place of a product in the fused-result list before sorting
FusedPlace(id) ==
    CHOOSE k \in 1..Len(weighted_results) :
        weighted_results[k].product_id = id

\* C7: the returned ids are in non-increasing order of total_weight, and
\* results of equal total_weight keep the order they had in the fused
\* list before sorting, also behind the type filter.
C7_SortedStable ==
    pc = "done" =>
        /\ \A k \in 1..Len(final_results) :
              /\ final_product_ids[k] = final_results[k].product_id
              /\ \E n \in 1..Len(weighted_results) :
                    weighted_results[n] = final_results[k]
        /\ \A a, b \in 1..Len(final_results) :
              a < b =>
                /\ RatLeq(final_results[b].total_weight,
                          final_results[a].total_weight)
                /\ RatEq(final_results[a].total_weight,
                         final_results[b].total_weight) =>
                      FusedPlace(final_product_ids[a])
                          < FusedPlace(final_product_ids[b])

\* three results: the heaviest was last in the fused list and is returned
\* first, the other two tie and keep their order
C7_Witness ==
    /\ pc = "done"
    /\ Len(final_results) = 3
    /\ FusedPlace(final_product_ids[1]) = 3
    /\ ~RatEq(final_results[1].total_weight, final_results[2].total_weight)
    /\ RatEq(final_results[2].total_weight, final_results[3].total_weight)
    /\ final_results[3].total_weight.num > 0

---------------------------------------------------------------------------
(* Calls of fuzzy_search on bounded blob maps                              *)

FuzzyTexts == {"red dress", "blue skirt"}

\* scores of partial_ratio: none, the default threshold, a good match
FuzzyScores == {0, 20, 60}

FuzzyThresholds == {0, 20, 50}

\* blob maps: up to MaxHits products in insertion order, no key twice
FuzzyProducts ==
    {d \in SeqUpTo([key : {P1, P2, P3}, value : FuzzyTexts], MaxHits) :
        \A a, b \in 1..Len(d) : a # b => d[a].key # d[b].key}

FuzzySearchCalls ==
    {[fn |-> "fuzzy_search", args |-> <<"dress", d, t, ratio>>] :
        d \in FuzzyProducts, t \in FuzzyThresholds,
        ratio \in [FuzzyTexts -> FuzzyScores]}

InitFuzzy ==
    /\ call \in FuzzySearchCalls
    /\ ret = <<>>
    /\ cpc = "call"
    /\ SearchIdle
    /\ IngestIdle

FuzzySearch ==
    /\ cpc = "call"
    /\ call.fn = "fuzzy_search"
    /\ ret' = fuzzy_search(call.args[1], call.args[2], call.args[3],
                           call.args[4])
    /\ cpc' = "done"
    /\ UNCHANGED call
    /\ UNCHANGED searchVars
    /\ UNCHANGED ingestVars

NextFuzzy == FuzzySearch

SpecFuzzy == InitFuzzy /\ [][NextFuzzy]_vars

---------------------------------------------------------------------------
(* Claims about fuzzy_search                                               *)

\* the places of the blob map whose blob scores at least the threshold
AtLeastThreshold ==
    {k \in 1..Len(call.args[2]) :
        call.args[4][call.args[2][k].value] >= call.args[3]}

\* C12: fuzzy_search returns exactly one match for each blob whose score is
\* >= threshold and none for the others, in non-increasing order of score,
\* equal scores in the iteration order of the blob map; with threshold 0
\* every blob yields a match.
C12_FuzzySearch ==
    (cpc = "done" /\ call.fn = "fuzzy_search") =>
        LET products == call.args[2]
            threshold == call.args[3]
            ratio == call.args[4]
        IN /\ Len(ret) = Cardinality(AtLeastThreshold)
           /\ \A k \in AtLeastThreshold :
                 \E n \in 1..Len(ret) :
                    ret[n] = [product_title |-> products[k].value,
                              score |-> ratio[products[k].value],
                              product_id |-> products[k].key]
           /\ \A a, b \in 1..Len(ret) :
                 a < b =>
                    /\ ret[a].score >= ret[b].score
                    /\ ret[a].score = ret[b].score =>
                          DictIndex(products, ret[a].product_id)
                              < DictIndex(products, ret[b].product_id)
           /\ threshold = 0 => Len(ret) = Len(products)

\* three blobs: two score exactly the threshold and are kept in map order,
\* behind the better one that is last in the map
C12_Witness ==
    /\ cpc = "done"
    /\ call.fn = "fuzzy_search"
    /\ call.args[3] = 20
    /\ Len(call.args[2]) = 3
    /\ call.args[4]["red dress"] = 60
    /\ call.args[4]["blue skirt"] = 20
    /\ call.args[2][1].value = "blue skirt"
    /\ call.args[2][2].value = "blue skirt"
    /\ call.args[2][3].value = "red dress"
    /\ Len(ret) = 3
    /\ ret[1].product_id = call.args[2][3].key
    /\ ret[2].product_id = call.args[2][1].key
    /\ ret[3].product_id = call.args[2][2].key

---------------------------------------------------------------------------
(* Index time: normalization of an item (preprocessing_indexing/main.py)   *)
(*                                                                         *)
(* An item carries product_id, rating, discount and final_price as the     *)
(* string of its S (or N) entry, <<>> when the entry is missing or empty.  *)
(* The text pipeline preprocess_text / remove_redundant_words reads        *)
(* SYNONYMS and STOP_WORDS of var.py, which is not part of the sources;    *)
(* color, product_type and occasion are the token lists get_list returns   *)
(* for the item, description the preprocessed text.                        *)

DigitChar(d) ==
    CASE d = 0 -> "0" [] d = 1 -> "1" [] d = 2 -> "2" [] d = 3 -> "3"
      [] d = 4 -> "4" [] d = 5 -> "5" [] d = 6 -> "6" [] d = 7 -> "7"
      [] d = 8 -> "8" [] d = 9 -> "9"

\* str(n) for an int n >= 0
RECURSIVE PyStr(_)
PyStr(n) ==
    IF n < 10 THEN <<DigitChar(n)>>
    ELSE PyStr(n \div 10) \o <<DigitChar(n % 10)>>

\* float(s) does not raise ValueError, for strings without exponent,
\* underscore, "inf" and "nan": blanks around, an optional sign, digits
\* with at most one point and at least one digit
PyFloatOk(s) ==
    LET u == IntBody(s)
        points == {k \in 1..Len(u) : u[k] = "."}
    IN /\ Cardinality(points) <= 1
       /\ Len(u) > Cardinality(points)
       /\ \A k \in 1..Len(u) : u[k] \in Digits \cup {"."}

RECURSIVE PowerOfTen(_)
PowerOfTen(n) == IF n = 0 THEN 1 ELSE 10 * PowerOfTen(n - 1)

\* float(s), where it does not raise: the exact decimal
PyFloatVal(s) ==
    LET t == PyStrip(s)
        u == IntBody(s)
        point == IF \E k \in 1..Len(u) : u[k] = "."
                 THEN CHOOSE k \in 1..Len(u) : u[k] = "."
                 ELSE Len(u) + 1
        v == digits_value(SelectSeq(u, LAMBDA c : c \in Digits), 0)
    IN Rat(IF t[1] = "-" THEN 0 - v ELSE v,
           PowerOfTen(Max(0, Len(u) - point)))

\* int(x): truncation towards zero
PyTrunc(r) ==
    IF r.num >= 0 THEN r.num \div r.den ELSE 0 - ((0 - r.num) \div r.den)

\* math.ceil(x)
PyCeil(r) == 0 - ((0 - r.num) \div r.den)

\* x or d, for ints
PyOr(x, d) == IF x = 0 THEN d ELSE x

\* preprocess_optional_field for discount, rating and final_price: the
\* string of the item when it is non-empty, else the default (an int)
preprocess_optional_field(item, key, default) ==
    IF item[key] # <<>>
    THEN [isstr |-> TRUE, str |-> item[key], int |-> 0]
    ELSE [isstr |-> FALSE, str |-> <<>>, int |-> default]

\* clean_and_convert_to_number that answers 0 where float() raises
clean_and_convert_lenient(input_string) ==
    IF ~input_string.isstr
    THEN [raised |-> FALSE, value |-> input_string.int]
    ELSE LET cleaned_string ==
                 SelectSeq(input_string.str,
                           LAMBDA char : char \notin {"$", "%", " "})
         IN IF ~PyFloatOk(cleaned_string)
            THEN [raised |-> FALSE, value |-> 0]
            ELSE [raised |-> FALSE,
                  value |-> PyCeil(PyFloatVal(cleaned_string))]

\* clean_and_convert_to_number: [raised, value]
clean_and_convert_to_number(input_string) ==
    IF ~input_string.isstr
    THEN [raised |-> FALSE, value |-> input_string.int]
    ELSE LET cleaned_string ==
                 SelectSeq(input_string.str,
                           LAMBDA char : char \notin {"$", "%", " "})
         IN IF ~PyFloatOk(cleaned_string)
            THEN [raised |-> TRUE, value |-> 0]
            ELSE [raised |-> FALSE,
                  value |-> PyCeil(PyFloatVal(cleaned_string))]

\* rating_int = int(float(rating)*10) or 1: [raised, value]
rating_int(rating) ==
    IF ~rating.isstr
    THEN [raised |-> FALSE, value |-> PyOr(rating.int * 10, 1)]
    ELSE IF ~PyFloatOk(rating.str)
    THEN [raised |-> TRUE, value |-> 0]
    ELSE [raised |-> FALSE,
          value |-> PyOr(PyTrunc(RatTimes(PyFloatVal(rating.str), 10)), 1)]

\* the sub-documents of one item: one per chunk, numbered from 0
normalized_items(item, chunk_list, rating, discount, final_price) ==
    [n \in 1..Len(chunk_list) |->
        LET index == n - 1
            chunk == chunk_list[n]
        IN [Id |-> item.product_id \o <<"_", "_">> \o PyStr(index),
            Title |-> chunk,
            Blob |-> chunk \o " ," \o item.description,
            product_id |-> item.product_id,
            rating |-> rating,
            discount |-> discount,
            final_price |-> final_price]]

\* normalize_item: [raised, value]; the conversions raise ValueError
normalize_item(item) ==
    LET discount == preprocess_optional_field(item, "discount", 0)
        rating == preprocess_optional_field(item, "rating", 0)
        final_price == preprocess_optional_field(item, "final_price", 0)
        rating_conv == rating_int(rating)
        discount_conv == clean_and_convert_to_number(discount)
        final_price_conv == clean_and_convert_to_number(final_price)
        kendra_product_chunk_list ==
            get_chunks_for_product(item.color, item.product_type,
                                   item.occasion)
    IN IF rating_conv.raised \/ discount_conv.raised
            \/ final_price_conv.raised
       THEN [raised |-> TRUE, value |-> <<>>]
       ELSE [raised |-> FALSE,
             value |-> normalized_items(item, kendra_product_chunk_list,
                          rating_conv.value,
                          PyOr(discount_conv.value, 0),
                          PyOr(final_price_conv.value, 100))]

---------------------------------------------------------------------------
(* Index time: the ingestion run main (preprocessing_indexing/main.py)     *)

\* most items in one ingestion run
MaxItems == 3

batch_size == 10

\* the loop "for item in items": [raised, value], value the documents
\* collected when the loop ended or normalize_item raised
RECURSIVE normalize_loop(_, _)
normalize_loop(items, documents) ==
    IF items = <<>> THEN [raised |-> FALSE, value |-> documents]
    ELSE LET normalized_item == normalize_item(Head(items))
         IN IF normalized_item.raised
            THEN [raised |-> TRUE, value |-> documents]
            ELSE normalize_loop(Tail(items),
                                documents \o normalized_item.value)

\* a batch one document longer than batch_size
batch_of_eleven(documents, i) == PySlice(documents, i, i + batch_size + 1)

\* batch = documents[i:i+batch_size]
batch_of(documents, i) == PySlice(documents, i, i + batch_size)

\* the FailedDocuments a response may list: none, or the first of the batch
FailedDocumentsOf(batch) == {<<>>, <<[Id |-> batch[1].Id]>>}

SevenOccasions ==
    <<"party", "formal", "casual", "beach", "office", "wedding", "travel">>

\* a product of seven chunks, a second item of the same product_id, a
\* product of one chunk with numeric attributes, an item without
\* product_id, one with a final_price that is no number, one with a rating
\* that carries a percent sign
IngestItems ==
    {[product_id |-> P1, color |-> <<"red">>, product_type |-> <<"dress">>,
      occasion |-> SevenOccasions, description |-> "backless",
      rating |-> <<>>, discount |-> <<>>, final_price |-> <<>>],
     [product_id |-> P1, color |-> <<"blue">>, product_type |-> <<"top">>,
      occasion |-> <<"formal">>, description |-> "sleeveless",
      rating |-> <<>>, discount |-> <<>>, final_price |-> <<>>],
     [product_id |-> P2, color |-> <<"blue">>, product_type |-> <<"skirt">>,
      occasion |-> <<"party">>, description |-> "pleated",
      rating |-> <<"4", ".", "5">>, discount |-> <<"2", "0", "%">>,
      final_price |-> <<"$", "9", ".", "5">>],
     [product_id |-> <<>>, color |-> <<"red">>, product_type |-> <<"top">>,
      occasion |-> <<"party", "formal">>, description |-> "Unknown",
      rating |-> <<>>, discount |-> <<>>, final_price |-> <<>>],
     [product_id |-> P3, color |-> <<"blue">>, product_type |-> <<"top">>,
      occasion |-> <<"casual">>, description |-> "Unknown",
      rating |-> <<>>, discount |-> <<>>, final_price |-> <<"a", "b", "c">>],
     [product_id |-> P3, color |-> <<"red">>, product_type |-> <<"skirt">>,
      occasion |-> <<"casual">>, description |-> "Unknown",
      rating |-> <<"4", "%">>, discount |-> <<"4", "%">>,
      final_price |-> <<>>]}

InitIngest ==
    /\ main_items \in SeqUpTo(IngestItems, MaxItems)
    /\ main_documents = <<>>
    /\ main_i = 0
    /\ put_calls = <<>>
    /\ main_ret = <<>>
    /\ ipc = "start"
    /\ SearchIdle
    /\ PureIdle

\* main up to the submission loop.  update_index_metadata catches its own
\* errors and the failure of add_thesaurus_to_kendra is caught and logged;
\* neither changes the run.  A ValueError of normalize_item is re-raised
\* by the handler of main.
NormalizeItems ==
    /\ ipc = "start"
    /\ LET loop == normalize_loop(main_items, <<>>)
       IN /\ main_documents' = loop.value
          /\ ipc' = IF loop.raised THEN "raised:ValueError" ELSE "normalized"
    /\ UNCHANGED <<main_items, main_i, put_calls, main_ret>>
    /\ UNCHANGED searchVars
    /\ UNCHANGED pureVars

\* one pass of the submission loop: kendra.batch_put_document answers with
\* or without FailedDocuments, or raises and main re-raises
BatchPutDocument ==
    /\ ipc = "normalized"
    /\ main_i < Len(main_documents)
    /\ LET batch == batch_of(main_documents, main_i)
       IN \/ /\ \E failed \in FailedDocumentsOf(batch) :
                   put_calls' = Append(put_calls,
                       [Documents |-> batch, FailedDocuments |-> failed,
                        raised |-> FALSE])
             /\ main_i' = main_i + batch_size
             /\ UNCHANGED ipc
          \/ /\ put_calls' = Append(put_calls,
                       [Documents |-> batch, FailedDocuments |-> <<>>,
                        raised |-> TRUE])
             /\ ipc' = "raised:put"
             /\ UNCHANGED main_i
    /\ UNCHANGED <<main_items, main_documents, main_ret>>
    /\ UNCHANGED searchVars
    /\ UNCHANGED pureVars

\* the loop is exhausted: return documents
ReturnDocuments ==
    /\ ipc = "normalized"
    /\ main_i >= Len(main_documents)
    /\ main_ret' = main_documents
    /\ ipc' = "returned"
    /\ UNCHANGED <<main_items, main_documents, main_i, put_calls>>
    /\ UNCHANGED searchVars
    /\ UNCHANGED pureVars

NextIngest == NormalizeItems \/ BatchPutDocument \/ ReturnDocuments

SpecIngest == InitIngest /\ [][NextIngest]_vars

---------------------------------------------------------------------------
(* Claims about the ingestion run                                          *)

\* the chunks of the k-th item of the run
ChunksOfItem(k) ==
    get_chunks_for_product(main_items[k].color, main_items[k].product_type,
                           main_items[k].occasion)

\* the number of sub-documents of the items before the k-th
RECURSIVE DocsBefore(_)
DocsBefore(k) ==
    IF k <= 1 THEN 0 ELSE DocsBefore(k - 1) + Len(ChunksOfItem(k - 1))

\* C13: among the sub-documents of one ingestion run no two have the same
\* Id base_id + "__" + index, also when items share a product_id or lack
\* one; and the sub-documents of each item are numbered 0..n-1 in chunk
\* generation order, with Title the chunk text.
C13_UniqueSequenceNumbers ==
    ipc \in {"normalized", "returned"} =>
        /\ \A a, b \in 1..Len(main_documents) :
              a # b => main_documents[a].Id # main_documents[b].Id
        /\ Len(main_documents) = DocsBefore(Len(main_items) + 1)
        /\ \A k \in 1..Len(main_items) :
              \A n \in 1..Len(ChunksOfItem(k)) :
                 LET doc == main_documents[DocsBefore(k) + n]
                 IN /\ doc.Id = main_items[k].product_id \o Sep
                                    \o PyStr(n - 1)
                    /\ doc.Title = ChunksOfItem(k)[n]

\* C14: the documents are submitted in list order in batches of 10: the
\* k-th batch_put_document call carries documents 10(k-1)+1 .. 10k (fewer
\* only in the last call), so no document is sent twice, whatever
\* FailedDocuments the responses listed; while documents remain the next
\* batch can be submitted; and a run that returns has sent every document
\* and returns the full document list.
C14_SequentialBatches ==
    /\ \A k \in 1..Len(put_calls) :
          /\ put_calls[k].Documents =
                SubSeq(main_documents, 10 * (k - 1) + 1,
                       Min(10 * k, Len(main_documents)))
          /\ Len(put_calls[k].Documents) \in 1..10
          /\ k < Len(put_calls) =>
                /\ Len(put_calls[k].Documents) = 10
                /\ ~put_calls[k].raised
    /\ (ipc = "normalized" /\ 10 * Len(put_calls) < Len(main_documents)) =>
          ENABLED BatchPutDocument
    /\ ipc = "returned" =>
          /\ main_ret = main_documents
          /\ 10 * Len(put_calls) >= Len(main_documents)
          /\ \A k \in 1..Len(put_calls) : ~put_calls[k].raised

\* 21 documents in three calls of 10, 10 and 1; the answers to the first
\* two listed a failed document
C14_Witness ==
    /\ ipc = "returned"
    /\ Len(main_ret) = 21
    /\ Len(put_calls) = 3
    /\ put_calls[1].FailedDocuments # <<>>
    /\ put_calls[2].FailedDocuments # <<>>
    /\ Len(put_calls[3].Documents) = 1

\* a string that is given and is not the text of a number
NonNumeric(s) == s # <<>> /\ ~PyFloatOk(s)

\* the string without currency sign, percent sign and blanks
WithoutUnits(s) == SelectSeq(s, LAMBDA char : char \notin {"$", "%", " "})

\* the item has a malformed numeric attribute value
MalformedNumeric(item) ==
    \/ NonNumeric(item.rating)
    \/ item.discount # <<>> /\ ~PyFloatOk(WithoutUnits(item.discount))
    \/ item.final_price # <<>> /\ ~PyFloatOk(WithoutUnits(item.final_price))

\* C16: if any item of the run has a malformed rating, discount or
\* final_price, main never gets behind the normalization: its only way
\* on is the ValueError it re-raises, it returns nothing, and no
\* batch_put_document call is issued for any document of any item.
C16_MalformedValueAborts ==
    (\E k \in 1..Len(main_items) : MalformedNumeric(main_items[k])) =>
        /\ ipc \in {"start", "raised:ValueError"}
        /\ put_calls = <<>>
        /\ main_ret = <<>>

\* the run raised at its last item, after the items before it had been
\* normalized into documents; none of them was submitted
C16_Witness ==
    /\ ipc = "raised:ValueError"
    /\ Len(main_items) >= 2
    /\ ~MalformedNumeric(main_items[1])
    /\ MalformedNumeric(main_items[Len(main_items)])
    /\ main_documents # <<>>
    /\ put_calls = <<>>

---------------------------------------------------------------------------
(* Startup and a sequence of searches (product_search/main.py)             *)

\* most product_search calls after startup
MaxSearches == 3

kendra_name == "product-desc"

\* check_index_response: the Id of the first index named kendra_name
RECURSIVE check_index_response(_)
check_index_response(summary_items) ==
    IF summary_items = <<>> THEN None
    ELSE LET index == Head(summary_items)
         IN IF index.Name = kendra_name THEN index.Id
            ELSE check_index_response(Tail(summary_items))

\* the IndexConfigurationSummaryItems list_indices may answer with
IndexListings ==
    SeqUpTo({[Name |-> "product-desc", Id |-> "index-1"],
             [Name |-> "orders", Id |-> "index-2"]}, 2)

\* the terms of a search: a type, a colour, both or neither
StartupAttrs ==
    [product_type : {"", "dress"}, product_color : {"", "red"},
     product_occasion : {""}]

\* the responses of the index: one chunk of up to two products
StartupResponses ==
    {<<>>,
     <<[DocumentId |-> P1 \o Sep \o <<"0">>, DocumentTitle |-> "red dress",
        ScoreConfidence |-> "HIGH"]>>,
     <<[DocumentId |-> P1 \o Sep \o <<"0">>, DocumentTitle |-> "red dress",
        ScoreConfidence |-> "HIGH"],
       [DocumentId |-> P2 \o Sep \o <<"0">>, DocumentTitle |-> "blue skirt",
        ScoreConfidence |-> "MEDIUM"]>>}

\* the module is being imported: kendra_index_id is not assigned yet
InitStartup ==
    /\ kendra_index_id = None
    /\ kendra_queries = 0
    /\ searches = 0
    /\ product_attr = EmptyDict
    /\ response = <<>>
    /\ grouped_titles = <<>>
    /\ RankUnset
    /\ pc = "import"
    /\ PureIdle
    /\ IngestIdle

\* kendra_index_id = get_index_id_by_name(kendra, kendra_name): None when
\* list_indices raises or lists no index of that name
GetIndexIdByName ==
    /\ pc = "import"
    /\ \/ kendra_index_id' = None
       \/ \E listing \in IndexListings :
             kendra_index_id' = check_index_response(listing)
    /\ pc' = "ready"
    /\ UNCHANGED <<kendra_queries, searches, product_attr, response,
                   grouped_titles>>
    /\ UNCHANGED rankVars
    /\ UNCHANGED pureVars
    /\ UNCHANGED ingestVars

\* a caller enters product_search, after the import or after the call
\* before returned or raised; the locals are fresh
CallProductSearch ==
    /\ pc \in {"ready", "done", "raised:index", "raised:query",
                "raised:ValueError"}
    /\ searches < MaxSearches
    /\ searches' = searches + 1
    /\ product_attr' \in StartupAttrs
    /\ response' = <<>>
    /\ grouped_titles' = <<>>
    /\ p_t_res' = <<>>
    /\ p_c_res' = <<>>
    /\ p_o_res' = <<>>
    /\ weighted_results' = <<>>
    /\ final_product_ids' = <<>>
    /\ final_results' = <<>>
    /\ pc' = "start"
    /\ UNCHANGED <<kendra_index_id, kendra_queries>>
    /\ UNCHANGED pureVars
    /\ UNCHANGED ingestVars

StartupRetrieve == retrieve_kendra(StartupResponses)

NextStartup ==
    \/ GetIndexIdByName
    \/ CallProductSearch
    \/ StartupRetrieve
    \/ FuzzySearches
    \/ FuseAndRank

SpecStartup == InitStartup /\ [][NextStartup]_vars

---------------------------------------------------------------------------
(* Claims about the unresolved index                                       *)

\* C15: when the import left kendra_index_id None, no query is ever issued
\* and no search gets behind validate_index; every call of retrieve_kendra
\* raises; and behind the import no step of any search assigns
\* kendra_index_id, so the failure persists over every later search.
C15_UnresolvedIndexPersists ==
    /\ []((pc # "import" /\ kendra_index_id = None) =>
            /\ kendra_queries = 0
            /\ pc \in {"ready", "start", "raised:index"}
            /\ grouped_titles = <<>>
            /\ final_product_ids = <<>>)
    /\ [][(pc = "start" /\ kendra_index_id = None) =>
            pc' = "raised:index"]_vars
    /\ [][pc # "import" => kendra_index_id' = kendra_index_id]_vars

\* the last of MaxSearches searches raised like the ones before it, and no
\* query was issued
C15_Witness ==
    /\ kendra_index_id = None
    /\ searches = MaxSearches
    /\ pc = "raised:index"
    /\ kendra_queries = 0

---------------------------------------------------------------------------
(* Index time to query time: one item is ingested, then its sub-documents  *)
(* come back as the hits of a query                                        *)

\* product ids: plain, missing, holding the separator, ending in "_"
RoundTripIds == {P1, <<>>, P1 \o Sep \o P2, <<"P", "_">>}

\* items of 1..MaxLen chunks
RoundTripItems ==
    {[product_id |-> id, color |-> <<"red">>, product_type |-> <<"dress">>,
      occasion |-> SubSeq(SevenOccasions, 1, n), description |-> "backless",
      rating |-> <<>>, discount |-> <<>>, final_price |-> <<>>] :
        id \in RoundTripIds, n \in 1..MaxLen}

\* the sub-documents as hits: DocumentId is the Id and DocumentTitle the
\* Title the document was submitted with
HitsOfDocuments(documents) ==
    [k \in 1..Len(documents) |->
        [DocumentId |-> documents[k].Id,
         DocumentTitle |-> documents[k].Title,
         ScoreConfidence |-> "HIGH"]]

\* the hits in every order the index may rank them
RoundTripResponses ==
    LET hits == HitsOfDocuments(main_documents)
    IN {[k \in 1..Len(hits) |-> hits[order[k]]] :
            order \in Orderings(1..Len(hits))}

InitRoundTrip ==
    /\ main_items \in {<<item>> : item \in RoundTripItems}
    /\ main_documents = <<>>
    /\ main_i = 0
    /\ put_calls = <<>>
    /\ main_ret = <<>>
    /\ ipc = "start"
    /\ kendra_index_id = "index-1"
    /\ kendra_queries = 0
    /\ searches = 1
    /\ product_attr = EmptyDict
    /\ response = <<>>
    /\ grouped_titles = <<>>
    /\ RankUnset
    /\ pc = "start"
    /\ PureIdle

\* retrieve_kendra behind the ingestion run, all sub-documents of the item
\* among the hits
RoundTripRetrieve ==
    /\ ipc = "returned"
    /\ retrieve_kendra(RoundTripResponses)

NextRoundTrip ==
    \/ NormalizeItems
    \/ BatchPutDocument
    \/ ReturnDocuments
    \/ RoundTripRetrieve

SpecRoundTrip == InitRoundTrip /\ [][NextRoundTrip]_vars

\* C17: the (Id, Title) pairs of the sub-documents normalize_item built
\* for an item, passed to group_and_combine in any order, come back
\* without error as the single entry that maps the item's product id to
\* the chunk texts joined by single spaces in generation order, for every
\* product id, the empty one and those that hold "__" included.
C17_RoundTrip ==
    (ipc = "returned" /\ pc \notin {"start", "raised:query"}) =>
        /\ pc = "returned"
        /\ grouped_titles =
              <<[key |-> main_items[1].product_id,
                 value |-> Join(" ", ChunksOfItem(1))]>>

---------------------------------------------------------------------------
(* Claims about the ids product_search returns                             *)

\* C18: a product_search call that returns names every base product id of
\* the reassembled hits exactly once when a type, colour or occasion term
\* is given, and returns the empty id list when none is given, whatever
\* hits the index returned.
C18_AllCandidatesReturned ==
    pc = "done" =>
        IF \/ product_attr.product_type # ""
           \/ product_attr.product_color # ""
           \/ product_attr.product_occasion # ""
        THEN /\ Len(final_product_ids) = Len(grouped_titles)
             /\ {final_product_ids[k] : k \in 1..Len(final_product_ids)} =
                   DictKeys(grouped_titles)
             /\ \A a, b \in 1..Len(final_product_ids) :
                   a # b => final_product_ids[a] # final_product_ids[b]
        ELSE final_product_ids = <<>>

\* a colour term alone and three candidates, one of which scores 0: all
\* three are returned
C18_Witness ==
    /\ pc = "done"
    /\ product_attr.product_type = ""
    /\ product_attr.product_color # ""
    /\ product_attr.product_occasion = ""
    /\ Len(grouped_titles) = 3
    /\ Len(final_product_ids) = 3
    /\ \E k \in 1..3 : final_results[k].prod_color.score = 0
    /\ \E k \in 1..3 : final_results[k].prod_color.score > 0

===========================================================================
